---- MODULE Spec2Model ----
(***************************************************************************)
(* Model of the LIS2DW12 accelerometer host driver                         *)
(* (klippy/extras/lis2dw12.py): the status poller with its bounded retry,  *)
(* the 16-bit sequence / limit-count extension, the duration filter, the   *)
(* sample buffer swap and the sample block decoder.                        *)
(* Also the CS1237 strain gauge host driver (klippy/extras/cs1237.py): the *)
(* single query slot with its waiters, the state report handler, the       *)
(* report subscriptions and the self-check sequences; and the KS1 probe    *)
(* (klippy/extras/probe_ks1.py): the sampling loop of run_probe and the    *)
(* trigger wait of probe.                                                  *)
(*                                                                         *)
(* The host runs on a cooperative reactor: a handler runs to its next      *)
(* suspension point without interleaving.  The status query inside         *)
(* _update_clock suspends the batch tick, so data and status callbacks may *)
(* run between the sending of a query and its outcome; each action below   *)
(* is one such uninterrupted stretch of code.                              *)
(*                                                                         *)
(* The MCU is the environment: devSeq and devLimit are its true, unwrapped *)
(* block and limit counters, of which the wire carries the low 16 bits.    *)
(***************************************************************************)
EXTENDS Integers, Sequences, FiniteSets, TLC

(* ------------------------------ bounds -------------------------------- *)

\* status responses modelled per measurement session
MaxPolls == 4
\* data blocks delivered per measurement session
MaxBlocks == 2
\* completions created by the CS1237 queries of one run
MaxQueries == 2
\* cs1237_state reports handled in one run
MaxReports == 3
\* largest "samples" parameter of run_probe
MaxSamples == 3
\* largest "samples_tolerance_retries" parameter of run_probe
MaxRetries == 2
\* width of the query_ticks field in the model (the wire field is 32 bits
\* wide and max_query_duration starts at half its range)
TickBits == 6
\* host ticks per sample of the fitted clock line
InvFreq == 4

(* ------------------------- program constants -------------------------- *)

BYTES_PER_SAMPLE == 6
SAMPLES_PER_BLOCK == 8
\* range(5) in _update_clock
QUERY_ATTEMPTS == 5
\* fifo <= 32 ends the retry loop
FIFO_VALID_MAX == 32
\* 0x10000, the span of a %hu wire field
WRAP16 == 65536
\* 0x8000, half that span
HALF16 == 32768
\* self.mcu.seconds_to_clock(0.000005), in model ticks
MIN_QUERY_TICKS == 2
\* largest data payload one lis2dw12_data message carries
MAX_PAYLOAD == 52

(* ------------------------- bit-level helpers -------------------------- *)

RECURSIVE BitAnd(_, _)
\* a & b on non-negative integers
BitAnd(a, b) ==
    IF a = 0 \/ b = 0 THEN 0
    ELSE (IF a % 2 = 1 /\ b % 2 = 1 THEN 1 ELSE 0) + 2 * BitAnd(a \div 2, b \div 2)

RECURSIVE BitOr(_, _)
\* a | b on non-negative integers
BitOr(a, b) ==
    IF a = 0 THEN b
    ELSE IF b = 0 THEN a
    ELSE (IF a % 2 = 1 \/ b % 2 = 1 THEN 1 ELSE 0) + 2 * BitOr(a \div 2, b \div 2)

\* x & 0xFFFF for any Python integer x (two's complement of unbounded width)
Low16(x) == x % WRAP16

\* x & (~0xFFFF) for any Python integer x
ClearLow16(x) == x - (x % WRAP16)

RECURSIVE Pow2(_)
Pow2(n) == IF n = 0 THEN 1 ELSE 2 * Pow2(n - 1)

Max(a, b) == IF a >= b THEN a ELSE b

(* ------------------------ sequence reconciler ------------------------- *)

\* Variant: the carry into bit 16 is never added.
ExtendNoCarry(last, reported) == BitOr(ClearLow16(last), reported)

\* Variant: the reported low 16 bits are stored as they are.
ExtendRaw(last, reported) == reported

\* Variant: the carry is also added when the count did not move.
ExtendCarryOnEqual(last, reported) ==
    LET sequence == BitOr(ClearLow16(last), reported)
    IN  IF sequence <= last THEN sequence + WRAP16 ELSE sequence

\* sequence = (last & ~0xFFFF) | reported ; if sequence < last: += 0x10000
\* (the same three lines extend limit_count)
ExtendLow16(last, reported) ==
    LET sequence == BitOr(ClearLow16(last), reported)
    IN  IF sequence < last THEN sequence + WRAP16 ELSE sequence

(* ------------------------ sample block decoder ------------------------ *)

\* value -= 0x10000 if value >= 0x8000
Signed16(v) == IF v < HALF16 THEN v ELSE v - WRAP16

\* Variant: the two status bits of the low byte are not masked.
RawAxisNoMask(low, high) == Signed16(BitOr(BitAnd(low, 255), BitAnd(high, 255) * 256))

\* One axis of a 6-byte unit: the low byte with its bottom two status bits
\* masked, or-ed with the high byte shifted left by 8, as signed 16 bit.
RawAxis(low, high) == Signed16(BitOr(BitAnd(low, 252), BitAnd(high, 255) * 256))

\* raw_xyz of the unit at byte offset i (0-based) of payload d:
\* low bytes of x, y, z, then high bytes of x, y, z
RawXYZ(d, i) ==
    << RawAxis(d[i + 1], d[i + 4]),
       RawAxis(d[i + 2], d[i + 5]),
       RawAxis(d[i + 3], d[i + 6]) >>

\* raw_xyz[pos] * scale / 4.0.  The scale is kept in units of SCALE_XY
\* (= SCALE_Z), so it is 1 or -1; every raw value is a multiple of 4, so the
\* division is exact.
ScaleAxis(raw_xyz, axis) == (raw_xyz[axis.pos + 1] * axis.scale) \div 4

\* The (ptime, x, y, z) tuple of the unit at byte offset i of payload d.
DecodeUnit(d, i, am, msg_cdiff, tr) ==
    LET raw_xyz == RawXYZ(d, i)
        sample_offset == i \div BYTES_PER_SAMPLE
    IN  << tr.time_base + (msg_cdiff + sample_offset) * tr.inv_freq,
           ScaleAxis(raw_xyz, am[1]),
           ScaleAxis(raw_xyz, am[2]),
           ScaleAxis(raw_xyz, am[3]) >>

\* Variant: the sequence field replaces the low 16 bits of last_sequence,
\* with no borrow for a block from before a wrap.
BlockSeqNoBorrow(last, sequence) == ClearLow16(last) + sequence

\* Absolute index of a block, derived from its 16-bit sequence field:
\* seq_diff = (last - sequence) & 0xFFFF; seq_diff -= (seq_diff & 0x8000) << 1
BlockSeq(last, sequence) ==
    LET d0 == Low16(last - sequence)
        seq_diff == d0 - BitAnd(d0, HALF16) * 2
    IN  last - seq_diff

\* Variant: a unit that ends exactly at the end of the payload is dropped.
UnitCompleteStrict(d, i) == i + BYTES_PER_SAMPLE < Len(d)

\* not (i + BYTES_PER_SAMPLE > len(d)): the unit at offset i is complete
UnitComplete(d, i) == i + BYTES_PER_SAMPLE <= Len(d)

RECURSIVE UnitsFrom(_, _, _, _, _)
\* for i in range(0, len(d), 6): if i + 6 > len(d): break; ... decode
UnitsFrom(d, i, am, msg_cdiff, tr) ==
    IF i >= Len(d) \/ ~UnitComplete(d, i) THEN << >>
    ELSE << DecodeUnit(d, i, am, msg_cdiff, tr) >>
         \o UnitsFrom(d, i + BYTES_PER_SAMPLE, am, msg_cdiff, tr)

\* The samples of one block, in payload order.
DecodeBlock(b, last, am, tr) ==
    LET seq == BlockSeq(last, b.sequence)
        msg_cdiff == seq * SAMPLES_PER_BLOCK - tr.chip_base
    IN  UnitsFrom(b.data, 0, am, msg_cdiff, tr)

RECURSIVE DecodeBlocks(_, _, _, _)
\* for params in raw_samples: ... , in list order
DecodeBlocks(raw, last, am, tr) ==
    IF raw = << >> THEN << >>
    ELSE DecodeBlock(Head(raw), last, am, tr) \o DecodeBlocks(Tail(raw), last, am, tr)

\* Variant: the translation is used whether or not the clock sync is ready.
extract_samples_unchecked(raw, last, am, cs_ready, tr) ==
    [err |-> "none", data |-> DecodeBlocks(raw, last, am, tr)]

\* extract_samples: the outcome is a record with err = "none" and the sample
\* list, or the exception raised.  samples is preallocated with
\* len(raw_samples) * SAMPLES_PER_BLOCK slots, and storing past it raises
\* IndexError.
extract_samples(raw, last, am, cs_ready, tr) ==
    IF ~cs_ready THEN [err |-> "ClockNotSynced", data |-> << >>]
    ELSE LET out == DecodeBlocks(raw, last, am, tr)
         IN  IF Len(out) > Len(raw) * SAMPLES_PER_BLOCK
             THEN [err |-> "IndexError", data |-> << >>]
             ELSE [err |-> "none", data |-> out]

(* ------------------------- clock sync regressor ----------------------- *)
(* bulk_sensor.ClockSyncRegression is not part of the sources; it is       *)
(* modelled from the specification (4.2): n counts the status points fed   *)
(* since reset (2 stands for two or more; successive polls carry different *)
(* clocks, so the points are distinct), (tick, chip) is the last point.    *)

\* reset(tick, sample_count): clears the window and seeds a fresh fit
ClockSyncReset(tick, chip) == [n |-> 0, tick |-> tick, chip |-> chip]

\* update(mcu_clock, chip_clock)
ClockSyncUpdate(cs, tick, chip) ==
    [n |-> IF cs.n < 2 THEN cs.n + 1 ELSE 2, tick |-> tick, chip |-> chip]

\* get_time_translation succeeds only with two or more points
ClockSyncReady(cs) == cs.n >= 2

\* (time_base, chip_base, inv_freq) of the fitted line host_time =
\* time_base + (sample_index - chip_base) * inv_freq, with inv_freq > 0
ClockSyncTranslation(cs) ==
    [time_base |-> cs.tick, chip_base |-> cs.chip, inv_freq |-> InvFreq]

(* ------------------------------- state -------------------------------- *)

VARIABLES
    pc,                 \* "stopped", "idle", or "query" while the batch
                        \* tick is suspended in the status query
    retry,              \* loop variable of the retry loop in _update_clock
    params,             \* local of _update_clock: the last response received
    samples,            \* self.samples, the buffer of raw sample blocks
    last_sequence,      \* self.last_sequence
    last_error_count,   \* self.last_error_count
    last_limit_count,   \* self.last_limit_count
    max_query_duration, \* self.max_query_duration
    clock_sync,         \* self.clock_sync
    axes_map,           \* self.axes_map, fixed at construction
    devSeq,             \* MCU: true count of blocks (next_sequence unwrapped)
    devLimit,           \* MCU: true limit count
    polls,              \* status responses received in this session
    nextId,             \* data blocks delivered in this session
    handed,             \* per block id: times it was passed to the decoder
    session,            \* ids of the blocks delivered during this session
    tick,               \* record of the retry loop of the current/last tick
    poll,               \* record of the last status poll that was processed
    result,             \* what the last batch tick returned or raised
    start,              \* what the last call of _start_measurements did
    finish,             \* what the call of _finish_measurements that ended
                        \* the last session did
    \* CS1237
    query_complete,     \* self._query_complete: 0 for None, or a completion
    checkself_flag,     \* self.checkself_flag, -1 for None
    sensor_state,       \* self.sensor_state, -1 for None
    completions,        \* the reactor completions created so far
    ctx,                \* the two callers of a query: where each stands
    wire,               \* cs1237_checkself_flag responses not yet delivered
    timedout,           \* completions whose wait timed out
    shutdown,           \* printer.invoke_shutdown was called
    events,             \* events sent with printer.send_event, in order
    reports,            \* cs1237_state reports handled
    sc,                 \* the run of _self_check_sequence
    errs,               \* exceptions caught so far, by what became of them
    adc_value,          \* self.adc_value, -1 for None
    raw_value,          \* self.raw_value, -1 for None
    reporting,          \* self._reporting
    clients,            \* self._clients, the list of callbacks
    devEnable,          \* MCU: enable of the last start_cs1237_report
                        \* command it received, -1 before the first
    \* ProbeKS1
    rp,                 \* the run of run_probe
    pw                  \* the run of probe

lisvars == << pc, retry, params, samples, last_sequence, last_error_count,
              last_limit_count, max_query_duration, clock_sync, axes_map,
              devSeq, devLimit, polls, nextId, handed, session, tick, poll,
              result, start, finish >>

\* the sensor values and the subscriptions of the CS1237 object
subvars == << adc_value, raw_value, reporting, clients >>

csvars == << query_complete, checkself_flag, sensor_state, completions, ctx,
             wire, timedout, shutdown, events, reports, sc, errs, subvars,
             devEnable >>

probevars == << rp, pw >>

vars == << lisvars, csvars, probevars >>

(* --------------------------- configuration ---------------------------- *)

\* self.max_query_duration = 1 << 31, half the range of query_ticks
MaxQueryInit == Pow2(TickBits - 1)

\* am: axis name -> (raw index, scale), the scale in units of SCALE_XY
AxisX == [pos |-> 0, scale |-> 1]
AxisY == [pos |-> 1, scale |-> 1]
AxisZ == [pos |-> 2, scale |-> 1]
AxisNegX == [pos |-> 0, scale |-> -1]
AxisNegY == [pos |-> 1, scale |-> -1]
AxisNegZ == [pos |-> 2, scale |-> -1]

\* config.getlist("axes_map", ["x", "y", "z"])
DefaultAxesMap == << AxisX, AxisY, AxisZ >>

(* ---------------------------- environment ----------------------------- *)
(* Inputs of the handlers.  Each specification below explores the driver   *)
(* under one family of inputs: every action of the driver is part of every *)
(* specification, the families differ in the values the MCU sends.         *)

Unit(b) == << b, b, b, b, b, b >>
RECURSIVE Fill(_, _)
Fill(n, b) == IF n = 0 THEN << >> ELSE Fill(n - 1, b) \o << b >>

\* <<blocks filled, limit events>> of the MCU between two status polls:
\* nothing, the largest block advance below half the 16-bit range, advances
\* of both counters above half the range, and more than the whole range
AdvanceWide == { <<0, 0>>, <<32767, 0>>, <<40000, 40000>>, <<65541, 0>> }
\* query_ticks of a status response, from 0 to the largest value of the field
DurWide == {0, 1, 3, Pow2(TickBits) - 1}
\* the fifo byte of a status response (bit 7 is masked off by the host)
FifoWide == {1, 33, 129}
\* <<index, payload>> of a lis2dw12_data message.  The index counts from the
\* MCU's block counter as of the last status response, and blocks may arrive
\* in any order.  The payloads: one unit, one unit and a partial one, and
\* the longest message (eight units and four bytes).
BlockWide == { <<0, Unit(4)>>, <<1, Unit(255) \o Fill(5, 7)>>,
               <<0, Fill(MAX_PAYLOAD, 129)>> }
\* a single kind of block
BlockOne == { <<0, Unit(4)>> }

NoParams == [attempt |-> 0]
\* the retry loop of the tick in progress (sent: queries sent so far), and
\* of the last tick once it is over (sent is 0 again)
NoTick == [sent |-> 0, anyOk |-> FALSE, resentOk |-> FALSE,
           resentValid |-> FALSE, raisedEarly |-> FALSE, lostFail |-> FALSE,
           usedLast |-> FALSE, endOk |-> FALSE, late |-> FALSE]
\* the last step that rewrote the session's counters: a status poll (done)
\* with the values it found (prev, mqd, cs), the fields of its response
\* (reported, dur) and the point it computed for the clock sync; or the start
\* of the session, with what the previous session had left (prev, left)
NoPoll == [done |-> FALSE, synced |-> FALSE, adv |-> 0, prev |-> 0,
           reported |-> 0, dur |-> 0, point |-> << 0, 0 >>, mqd |-> 0,
           cs |-> ClockSyncReset(0, 0), left |-> 0]
NoResult == [kind |-> "none", data |-> << >>, errors |-> 0, overflows |-> 0,
             err |-> "none", input |-> << >>, ready |-> FALSE]
\* the session state _start_measurements is to rebuild, as a snapshot
NoSession == [samples |-> << >>, last_sequence |-> 0, last_error_count |-> 0,
              last_limit_count |-> 0, max_query_duration |-> 0,
              clock_sync |-> [n |-> 0, tick |-> 0, chip |-> 0]]
\* the last call of _start_measurements: how it ended, the register check
\* that failed, the error raised, the query commands it sent, and the
\* session state before and after a call that raised
NoStart == [outcome |-> "none", check |-> "none", err |-> "none", sent |-> 0,
            before |-> NoSession, after |-> NoSession]
\* no call of _finish_measurements yet: how it ended, the error raised and
\* the stop commands it sent
NoFinish == [outcome |-> "none", err |-> "none", sent |-> 0]

\* CS1237 state and error constants
SELF_CHECK_STATE == 1
SCRATCH_STATE == 2
BLOCK_FILAMENT_STATE == 4
HEAD_BLOCK_STATE == 8
ERR_BIT == 128
SELF_CHECK_ERR == SELF_CHECK_STATE + ERR_BIT
SCRATCH_STATE_ERR == SCRATCH_STATE + ERR_BIT
BLOCK_FILAMENT_ERR == BLOCK_FILAMENT_STATE + ERR_BIT
HEAD_BLOCK_STATE_ERR == HEAD_BLOCK_STATE + ERR_BIT

\* None, for the integer fields of the CS1237 object
None == -1
\* params = None: no response was returned to the caller
NoResponse == [some |-> FALSE, name |-> "none", for |-> 0, flag |-> 0,
               raw |-> 0]
\* a caller of a query that has not run: pc is "idle", then "pause" (only
\* _handle_ready), "wait", and "done" with the outcome
NoCaller == [pc |-> "idle", comp |-> 0, params |-> NoResponse,
             raised |-> FALSE]
Callers == {"g9123", "ready"}
\* a run of _self_check_sequence: the steps it issued, whether a report was
\* handled between its start and stop commands, and the sensor state and
\* the outcome of its verdict
NoSelfCheck == [pc |-> "idle", trace |-> << >>, fresh |-> FALSE,
                state |-> None, raised |-> FALSE]
NoErrs == [ran |-> FALSE, logged |-> {}, swallowed |-> {}, raised |-> {}]

\* a run of run_probe that has not begun: its parameters (cnt, retries,
\* tol), its locals (zs: the z of each entry of samples; attempts), the
\* probe() calls so far and the z of the last one, the multi_probe_begin and
\* multi_probe_end calls, and how it ended
NoRun == [pc |-> "idle", cnt |-> 0, retries |-> 0, tol |-> 0, zs |-> << >>,
          attempts |-> 0, calls |-> 0, z |-> 0, begins |-> 0, ends |-> 0,
          outcome |-> "none"]
\* a run of probe that has not begun: where it stands, the endstop pin, the
\* last answer of the endstop query, the adc value it last read, and how it
\* ended
NoWait == [pc |-> "idle", pin |-> 0, endstop |-> 0, adc |-> None,
           outcome |-> "none"]

\* ProbeKS1.__init__, as far as run_probe and probe are concerned
InitProbe ==
    /\ rp = NoRun
    /\ pw = NoWait

\* CS1237.__init__
InitCS ==
    /\ query_complete = 0
    /\ checkself_flag = None
    /\ sensor_state = None
    /\ completions = << >>
    /\ ctx = [c \in Callers |-> NoCaller]
    /\ wire = << >>
    /\ timedout = {}
    /\ shutdown = FALSE
    /\ events = << >>
    /\ reports = 0
    /\ sc = NoSelfCheck
    /\ errs = NoErrs
    /\ adc_value = None
    /\ raw_value = None
    /\ reporting = FALSE
    /\ clients = << >>
    /\ devEnable = None

(* ------------------------------- Init --------------------------------- *)

\* __init__: the state after construction, no measurement running
Init ==
    /\ InitCS
    /\ InitProbe
    /\ start = NoStart
    /\ finish = NoFinish
    /\ pc = "stopped"
    /\ retry = 0
    /\ params = NoParams
    /\ samples = << >>
    /\ last_sequence = 0
    /\ last_error_count = 0
    /\ last_limit_count = 0
    /\ max_query_duration = MaxQueryInit
    /\ clock_sync = ClockSyncReset(0, 0)
    /\ axes_map = DefaultAxesMap
    /\ devSeq = 0
    /\ devLimit = 0
    /\ polls = 0
    /\ nextId = 0
    /\ handed = [i \in 1..MaxBlocks |-> 0]
    /\ session = {}
    /\ tick = NoTick
    /\ poll = NoPoll
    /\ result = NoResult

(* --------------------------- _update_clock ---------------------------- *)

\* fifo = params.get("fifo", 0) & 0x7F
FifoLevel(p) == BitAnd(p.fifo, 127)

\* if fifo <= 32: break
RetryBreaks(fifo) == fifo <= FIFO_VALID_MAX

\* Variant: the loop gives up one attempt early.
RetryExhaustedEarly(r) == r = QUERY_ATTEMPTS - 2

\* if retry == 4: raise command_error("Unable to query lis2dw12 fifo")
RetryExhausted(r) == r = QUERY_ATTEMPTS - 1

\* The loop is left with params in hand on break, or when range(5) ends.
LoopEnds(fifo, r) == RetryBreaks(fifo) \/ RetryExhausted(r)

\* Variant: a duration equal to the maximum is rejected too.
DurationRejectedInclusive(mqd, p) == p.query_ticks >= mqd

\* if duration > self.max_query_duration
DurationRejected(mqd, p) == p.query_ticks > mqd

\* Variant: a rejection keeps max_query_duration, but for the floor.
MaxQueryNotDoubled(mqd, p) ==
    IF p.query_ticks > mqd THEN Max(mqd, MIN_QUERY_TICKS)
    ELSE 2 * p.query_ticks

\* max(2 * max_query_duration, seconds_to_clock(0.000005)) on rejection,
\* 2 * duration otherwise
MaxQueryAfter(mqd, p) ==
    IF DurationRejected(mqd, p) THEN Max(2 * mqd, MIN_QUERY_TICKS)
    ELSE 2 * p.query_ticks

\* msg_count + 1, msg_count = sequence * 8 + buffered // 6 + fifo
ChipClock(sequence, p) ==
    sequence * SAMPLES_PER_BLOCK + (p.buffered \div BYTES_PER_SAMPLE)
    + FifoLevel(p) + 1

\* clock_sync.update(mcu_clock + duration // 2, chip_clock), skipped when
\* the duration filter rejects the poll
ClockSyncAfter(cs, mqd, sequence, p) ==
    IF DurationRejected(mqd, p) THEN cs
    ELSE ClockSyncUpdate(cs, p.clock + (p.query_ticks \div 2), ChipClock(sequence, p))

(* --------------------------- _process_batch --------------------------- *)

\* Variant: the buffer is not replaced after it was taken.
BufferKept(buf) == buf

\* self.samples = []
BufferAfterSwap(buf) == << >>

\* except Exception: samples = []
CaughtSamples(ex) == IF ex.err = "none" THEN ex.data ELSE << >>

\* What _process_batch returns after a successful _update_clock.
BatchResult(raw, ex, errors, overflows, ready) ==
    IF raw = << >>
    THEN [kind |-> "empty", data |-> << >>, errors |-> 0, overflows |-> 0,
          err |-> "none", input |-> << >>, ready |-> ready]
    ELSE [kind |-> "batch", data |-> CaughtSamples(ex), errors |-> errors,
          overflows |-> overflows, err |-> ex.err,
          input |-> raw, ready |-> ready]

\* The exception of _update_clock propagates out of _process_batch.
RaisedResult ==
    [kind |-> "raised", data |-> << >>, errors |-> 0, overflows |-> 0,
     err |-> "DeviceUnresponsive", input |-> << >>, ready |-> FALSE]

\* handed, after the blocks of raw were passed to extract_samples
HandedAfter(h, raw) ==
    [i \in DOMAIN h |->
        h[i] + Cardinality({k \in 1..Len(raw) : raw[k].id = i})]

(* ------------------------------ actions ------------------------------- *)

\* A status response as the MCU sends it: the counters are the low 16 bits
\* of the true ones, after sadv more blocks and ladv more limit events.
Response(sadv, ladv, dur, fifo, buffered) ==
    [clock |-> (polls + 1) * Pow2(TickBits), query_ticks |-> dur,
     next_sequence |-> Low16(devSeq + sadv), buffered |-> buffered,
     fifo |-> fifo, limit_count |-> Low16(devLimit + ladv),
     attempt |-> retry + 1]

\* the register checks of _start_measurements, in the order it makes them:
\* the device id, then the read-back of CTRL1, FIFO_CTRL (power off), CTRL6
\* and FIFO_CTRL (fifo mode)
StartChecks == {"devid", "ctrl1", "fifo_off", "ctrl6", "fifo_ctl"}

\* the command_error of the failed check: "Invalid lis2dw12 id" from
\* _start_measurements, "Failed to set LIS2DW12 register" from set_reg
StartError(check) ==
    IF check = "devid" THEN "InvalidId" ELSE "RegisterVerifyMismatch"

\* the session state as a snapshot
Session(buf, seq, errors, limits, mqd, cs) ==
    [samples |-> buf, last_sequence |-> seq, last_error_count |-> errors,
     last_limit_count |-> limits, max_query_duration |-> mqd,
     clock_sync |-> cs]

\* Variant: the sample buffer is cleared before the register checks.
SamplesClearedBeforeChecks(buf) == << >>

\* self.samples when a register check raises: the reset of the session
\* state comes after the checks and the query command, so it is as it was
SamplesAfterFailedStart(buf) == buf

\* _start_measurements raising on a wrong device id or register read-back:
\* the error leaves the function before the query command is sent and
\* before the session state is reset
StartFail(check) ==
    /\ UNCHANGED << csvars, probevars >>
    /\ pc = "stopped"
    /\ samples' = SamplesAfterFailedStart(samples)
    /\ start' = [outcome |-> "raised", check |-> check,
                 err |-> StartError(check), sent |-> 0,
                 before |-> Session(samples, last_sequence, last_error_count,
                                    last_limit_count, max_query_duration,
                                    clock_sync),
                 after |-> Session(samples', last_sequence, last_error_count,
                                   last_limit_count, max_query_duration,
                                   clock_sync)]
    /\ UNCHANGED << pc, retry, params, last_sequence,
                    last_error_count, last_limit_count, max_query_duration,
                    clock_sync, axes_map, devSeq, devLimit, polls, nextId,
                    handed, session, tick, poll, result, finish >>

\* Variant: the sample buffer is not cleared at the start of a session.
SamplesKeptAtStart(buf) == buf

\* self.samples = [] in _start_measurements
SamplesAfterStart(buf) == << >>

\* _start_measurements passing its register checks.  The register transfers
\* suspend, the query command and the reset that follows do not: a callback
\* that runs during the transfers runs before the reset, as one that ran
\* before the start does.  The MCU restarts its counters with the command.
StartMeasurements ==
    /\ UNCHANGED << csvars, probevars >>
    /\ pc = "stopped"
    /\ pc' = "idle"
    /\ samples' = SamplesAfterStart(samples)
    /\ last_sequence' = 0
    /\ last_error_count' = 0
    /\ last_limit_count' = 0
    /\ max_query_duration' = MaxQueryInit
    /\ clock_sync' = ClockSyncReset(0, 0)
    /\ devSeq' = 0
    /\ devLimit' = 0
    /\ polls' = 0
    /\ nextId' = 0
    /\ handed' = [i \in DOMAIN handed |-> 0]
    /\ session' = {}
    /\ tick' = NoTick
    /\ poll' = [NoPoll EXCEPT !.prev = last_sequence, !.left = Len(samples)]
    /\ result' = NoResult
    /\ start' = [NoStart EXCEPT !.outcome = "ok", !.sent = 1]
    /\ finish' = NoFinish
    /\ UNCHANGED << retry, params, axes_map >>

\* the writes of REG_FIFO_CTRL in _finish_measurements: the one before the
\* stop command and the one after it
FinishWrites == {"first", "last"}

\* _finish_measurements suspends three times: in the read-back of its first
\* write ("finish_write"), in send_wait_ack of the stop command
\* ("finish_ack") and in the read-back of its last write ("finish_last").
\* Response handlers run meanwhile; the function itself changes no field of
\* the object.  This is the function up to the read-back of its first write.
FinishBegin ==
    /\ UNCHANGED << csvars, probevars >>
    /\ pc = "idle"
    /\ pc' = "finish_write"
    /\ UNCHANGED finish
    /\ UNCHANGED << retry, params, samples, last_sequence, last_error_count,
                    last_limit_count, max_query_duration, clock_sync,
                    axes_map, start, devSeq, devLimit, polls, nextId, handed,
                    session, tick, poll, result >>

\* the first write read back as written: the stop command is sent and its
\* acknowledgement awaited
FinishStop ==
    /\ UNCHANGED << csvars, probevars >>
    /\ pc = "finish_write"
    /\ pc' = "finish_ack"
    /\ finish' = [finish EXCEPT !.sent = 1]
    /\ UNCHANGED << retry, params, samples, last_sequence, last_error_count,
                    last_limit_count, max_query_duration, clock_sync,
                    axes_map, start, devSeq, devLimit, polls, nextId, handed,
                    session, tick, poll, result >>

\* the stop command is acknowledged: the last write is sent and read back
FinishAck ==
    /\ UNCHANGED << csvars, probevars >>
    /\ pc = "finish_ack"
    /\ pc' = "finish_last"
    /\ UNCHANGED finish
    /\ UNCHANGED << retry, params, samples, last_sequence, last_error_count,
                    last_limit_count, max_query_duration, clock_sync,
                    axes_map, start, devSeq, devLimit, polls, nextId, handed,
                    session, tick, poll, result >>

\* the last write read back as written: _finish_measurements returns
FinishMeasurements ==
    /\ UNCHANGED << csvars, probevars >>
    /\ pc = "finish_last"
    /\ pc' = "stopped"
    /\ finish' = [finish EXCEPT !.outcome = "ok"]
    /\ UNCHANGED << retry, params, samples, last_sequence, last_error_count,
                    last_limit_count, max_query_duration, clock_sync,
                    axes_map, start, devSeq, devLimit, polls, nextId, handed,
                    session, tick, poll, result >>

\* _finish_measurements raising in set_reg: the register reads back another
\* value than written.  On the first write the error leaves the function
\* before the stop command is sent, on the last write after it was sent and
\* acknowledged.  The batch helper takes the session as over in either case.
FinishFail(write) ==
    /\ UNCHANGED << csvars, probevars >>
    /\ pc = IF write = "first" THEN "finish_write" ELSE "finish_last"
    /\ pc' = "stopped"
    /\ finish' = [finish EXCEPT !.outcome = "raised",
                                !.err = "RegisterVerifyMismatch"]
    /\ UNCHANGED << retry, params, samples, last_sequence, last_error_count,
                    last_limit_count, max_query_duration, clock_sync,
                    axes_map, start, devSeq, devLimit, polls, nextId, handed,
                    session, tick, poll, result >>

\* the MCU sends data messages from the query command of a start until a
\* stop command is sent to it
Streaming ==
    IF pc = "stopped" THEN finish.outcome = "raised" /\ finish.sent = 0
    ELSE finish.sent = 0

\* a data message can be delivered: the MCU streams, or it sent the message
\* before the stop command reached it, which is before it acknowledged it
DataInFlight == Streaming \/ pc = "finish_ack"

\* _handle_lis2dw12_data: self.samples.append(params).  The MCU sends each
\* block index once.
HandleData(ahead, payload, maxb) ==
    /\ UNCHANGED << csvars, probevars >>
    /\ DataInFlight
    /\ nextId < maxb
    /\ \A k \in 1..Len(samples) : samples[k].idx # devSeq + ahead
    /\ nextId' = nextId + 1
    /\ samples' = Append(samples,
                         [id |-> nextId + 1,
                          sequence |-> Low16(devSeq + ahead),
                          data |-> payload,
                          idx |-> devSeq + ahead])
    /\ session' = session \cup {nextId + 1}
    /\ tick' = IF pc = "query" THEN [tick EXCEPT !.late = TRUE] ELSE tick
    /\ UNCHANGED << pc, retry, params, last_sequence, last_error_count,
                    last_limit_count, max_query_duration, clock_sync,
                    axes_map, start, finish, devSeq, devLimit, polls, handed, poll, result >>

\* _handle_lis2dw12_status: the message has no "errors" field, so
\* last_error_count keeps its value; limit_count is stored as received
HandleStatus ==
    /\ UNCHANGED << csvars, probevars >>
    /\ last_limit_count' = Low16(devLimit)
    /\ UNCHANGED << pc, retry, params, samples, last_sequence,
                    last_error_count, max_query_duration, clock_sync,
                    axes_map, start, finish, devSeq, devLimit, polls, nextId, handed,
                    session, tick, poll, result >>

\* _process_batch entering _update_clock: the first query is sent
TickBegin ==
    /\ UNCHANGED << csvars, probevars >>
    /\ pc = "idle"
    /\ pc' = "query"
    /\ retry' = 0
    /\ params' = NoParams
    /\ tick' = [NoTick EXCEPT !.sent = 1]
    /\ poll' = NoPoll
    /\ result' = NoResult
    /\ UNCHANGED << samples, last_sequence, last_error_count,
                    last_limit_count, max_query_duration, clock_sync,
                    axes_map, start, finish, devSeq, devLimit, polls, nextId, handed,
                    session >>

\* the query raises and attempts remain: continue, the query is sent again
QueryFailRetry ==
    /\ UNCHANGED << csvars, probevars >>
    /\ pc = "query"
    /\ ~RetryExhausted(retry)
    /\ retry' = retry + 1
    /\ tick' = [tick EXCEPT !.sent = @ + 1,
                            !.lostFail = @ \/ tick.sent >= QUERY_ATTEMPTS]
    /\ UNCHANGED << pc, params, samples, last_sequence, last_error_count,
                    last_limit_count, max_query_duration, clock_sync,
                    axes_map, start, finish, devSeq, devLimit, polls, nextId, handed,
                    session, poll, result >>

\* the query raises on the last attempt: command_error leaves the tick
QueryFailRaise ==
    /\ UNCHANGED << csvars, probevars >>
    /\ pc = "query"
    /\ RetryExhausted(retry)
    /\ pc' = "idle"
    /\ retry' = 0
    /\ params' = NoParams
    /\ tick' = [tick EXCEPT !.sent = 0,
                            !.raisedEarly = tick.sent < QUERY_ATTEMPTS]
    /\ result' = RaisedResult
    /\ UNCHANGED << samples, last_sequence, last_error_count,
                    last_limit_count, max_query_duration, clock_sync,
                    axes_map, start, finish, devSeq, devLimit, polls, nextId, handed,
                    session, poll >>

\* a response arrives that does not end the loop: the query is sent again
QueryRespondRetry(p) ==
    /\ UNCHANGED << csvars, probevars >>
    /\ pc = "query"
    /\ ~LoopEnds(FifoLevel(p), retry)
    /\ retry' = retry + 1
    /\ params' = p
    /\ tick' = [tick EXCEPT !.sent = @ + 1, !.anyOk = TRUE, !.resentOk = TRUE,
                            !.resentValid = @ \/ FifoLevel(p) <= FIFO_VALID_MAX]
    /\ UNCHANGED << pc, samples, last_sequence, last_error_count,
                    last_limit_count, max_query_duration, clock_sync,
                    axes_map, start, finish, devSeq, devLimit, polls, nextId, handed,
                    session, poll, result >>

\* a response arrives that ends the loop: the rest of _update_clock and of
\* _process_batch run without suspending
QueryRespondDone(p, sadv, ladv) ==
    /\ UNCHANGED << csvars, probevars >>
    /\ pc = "query"
    /\ polls < MaxPolls
    /\ LoopEnds(FifoLevel(p), retry)
    /\ LET sequence == ExtendLow16(last_sequence, p.next_sequence)
           limit_count == ExtendLow16(last_limit_count, p.limit_count)
           cs == ClockSyncAfter(clock_sync, max_query_duration, sequence, p)
           raw_samples == samples
           ex == extract_samples(raw_samples, sequence, axes_map,
                                 ClockSyncReady(cs), ClockSyncTranslation(cs))
       IN  /\ last_sequence' = sequence
           /\ last_limit_count' = limit_count
           /\ max_query_duration' = MaxQueryAfter(max_query_duration, p)
           /\ clock_sync' = cs
           /\ samples' = BufferAfterSwap(samples)
           /\ result' = BatchResult(raw_samples, ex, last_error_count,
                                    limit_count, ClockSyncReady(cs))
           /\ handed' = HandedAfter(handed, raw_samples)
           /\ poll' = [done |-> TRUE, synced |-> last_sequence = devSeq,
                       adv |-> sadv, prev |-> last_sequence,
                       reported |-> p.next_sequence, dur |-> p.query_ticks,
                       point |-> << p.clock + (p.query_ticks \div 2),
                                    ChipClock(sequence, p) >>,
                       mqd |-> max_query_duration, cs |-> clock_sync,
                       left |-> 0]
    /\ pc' = "idle"
    /\ retry' = 0
    /\ params' = NoParams
    /\ tick' = [tick EXCEPT !.sent = 0, !.anyOk = TRUE,
                            !.usedLast = (p.attempt = tick.sent),
                            !.endOk = (FifoLevel(p) <= FIFO_VALID_MAX
                                       \/ tick.sent = QUERY_ATTEMPTS)]
    /\ devSeq' = devSeq + sadv
    /\ devLimit' = devLimit + ladv
    /\ polls' = polls + 1
    /\ UNCHANGED << last_error_count, axes_map, start, finish, nextId,
                    session >>

\* One step of the driver, the inputs of its handlers drawn from the given
\* sets: PA advances of the MCU counters, DS durations, FS fifo bytes,
\* BS buffered byte counts, BK blocks, of which at most maxb are delivered.
Step(PA, DS, FS, BS, BK, maxb) ==
    \/ \E check \in StartChecks : StartFail(check)
    \/ StartMeasurements
    \/ FinishBegin
    \/ FinishStop
    \/ FinishAck
    \/ FinishMeasurements
    \/ \E write \in FinishWrites : FinishFail(write)
    \/ \E blk \in BK : HandleData(blk[1], blk[2], maxb)
    \/ HandleStatus
    \/ TickBegin
    \/ QueryFailRetry
    \/ QueryFailRaise
    \/ \E dur \in DS, fifo \in FS, buffered \in BS :
          QueryRespondRetry(Response(0, 0, dur, fifo, buffered))
    \/ \E adv \in PA, dur \in DS, fifo \in FS, buffered \in BS :
          QueryRespondDone(Response(adv[1], adv[2], dur, fifo, buffered),
                           adv[1], adv[2])

\* The sequence and limit counters under wide advances of the MCU counters.
NextSeq == Step(AdvanceWide, {1}, {1, 33}, {0}, BlockOne, 1)
SpecSeq == Init /\ [][NextSeq]_vars

\* The retry loop and the duration filter under every kind of fifo byte
\* and duration.
NextPoll == Step({<<1, 1>>}, DurWide, FifoWide, {13}, BlockOne, 1)
SpecPoll == Init /\ [][NextPoll]_vars

\* <<blocks filled, limit events>> around the half and the whole of the
\* 16-bit range
AdvanceExt == { <<0, 0>>, <<1, 0>>, <<32767, 0>>, <<32768, 0>>, <<32769, 0>>,
                <<65535, 0>> }
\* The sequence extension for reported values all around last_sequence.
NextExt == Step(AdvanceExt, {1}, {1, 33}, {0}, BlockOne, 1)
SpecExt == Init /\ [][NextExt]_vars

\* <<blocks filled, limit events>> that keep the host in step with the MCU
AdvanceNear == { <<0, 0>>, <<2, 0>>, <<32767, 0>> }
\* blocks of one unit each, at the MCU's block counter and one past it
BlockUnits == { <<0, Unit(4)>>, <<1, Unit(8)>> }
\* The decoder's block index for blocks up to 32767 behind last_sequence.
NextBlock == Step(AdvanceNear, {1}, {1, 33}, {0}, BlockUnits, 2)
SpecBlock == Init /\ [][NextBlock]_vars

\* query_ticks of the status responses of a session whose polls all take
\* at most 3 ticks
DurBounded == {0, 1, 3}
\* A session that keeps polling: the batch timer fires again and again
\* while the measurement runs, and the MCU answers each status query.
NextFilter ==
    \/ StartMeasurements
    \/ \E blk \in BlockOne : HandleData(blk[1], blk[2], 1)
    \/ TickBegin
    \/ \E dur \in DurBounded :
          QueryRespondRetry(Response(0, 0, dur, 33, 0))
    \/ \E dur \in DurBounded :
          QueryRespondDone(Response(1, 0, dur, 1, 0), 1, 0)
SpecFilter ==
    /\ Init
    /\ [][NextFilter]_vars
    /\ WF_vars(StartMeasurements)
    /\ WF_vars(TickBegin)
    /\ WF_vars(\E dur \in DurBounded :
                  QueryRespondDone(Response(1, 0, dur, 1, 0), 1, 0))

\* The sample buffer and the decoder under every payload and arrival order.
Next == Step({<<2, 0>>}, {1}, {1, 33}, {0}, BlockWide, MaxBlocks)
Spec == Init /\ [][Next]_vars

(* ----------------- decoding one unit, for every input ----------------- *)

\* The two bytes (low, high) that carry raw * 4 as a 16-bit two's complement
\* value: the encoding the decoder's division by 4 undoes.
EncodeAxis(r) ==
    LET v == (r * 4) % WRAP16
    IN  << v % 256, v \div 256 >>

\* raw values that fit the 14 significant bits
RoundTripRaw == {-8192, -200, 0, 100, 8191}

\* (low, high) byte pairs of one axis: the encodings above, and bytes with
\* the status bits set at both ends of the 16-bit range and near zero
AxisPairs == { EncodeAxis(r) : r \in RoundTripRaw }
             \cup { <<255, 127>>, <<3, 128>>, <<1, 255>> }

\* axes_map as configured: the default, and two maps that permute and negate
AxesMapChoices == { DefaultAxesMap,
                    << AxisZ, AxisNegX, AxisY >>,
                    << AxisNegY, AxisNegZ, AxisX >> }

\* A running session after its first status poll (two blocks filled, the
\* poll accepted), with one block of one unit in the buffer: the state from
\* which the next batch tick decodes that unit.
InitDecode ==
    /\ InitCS
    /\ InitProbe
    /\ start = [NoStart EXCEPT !.outcome = "ok", !.sent = 1]
    /\ finish = NoFinish
    /\ pc = "idle"
    /\ retry = 0
    /\ params = NoParams
    /\ \E x \in AxisPairs, y \in AxisPairs, z \in AxisPairs :
          samples = << [id |-> 1, sequence |-> 2,
                        data |-> << x[1], y[1], z[1], x[2], y[2], z[2] >>,
                        idx |-> 2] >>
    /\ last_sequence = 2
    /\ last_error_count = 0
    /\ last_limit_count = 0
    /\ max_query_duration = 2
    /\ clock_sync = ClockSyncUpdate(ClockSyncReset(0, 0), Pow2(TickBits), 18)
    /\ axes_map \in AxesMapChoices
    /\ devSeq = 2
    /\ devLimit = 0
    /\ polls = 1
    /\ nextId = 1
    /\ handed = [i \in 1..MaxBlocks |-> 0]
    /\ session = {1}
    /\ tick = [NoTick EXCEPT !.anyOk = TRUE, !.usedLast = TRUE, !.endOk = TRUE]
    /\ poll = [done |-> TRUE, synced |-> TRUE, adv |-> 2, prev |-> 0,
               reported |-> 2, dur |-> 1, point |-> << Pow2(TickBits), 18 >>,
               mqd |-> MaxQueryInit, cs |-> ClockSyncReset(0, 0), left |-> 0]
    /\ result = BatchResult(<< >>, << >>, 0, 0, FALSE)

NextDecode ==
    \/ TickBegin
    \/ QueryRespondDone(Response(2, 0, 1, 1, 0), 2, 0)
SpecDecode == InitDecode /\ [][NextDecode]_vars

(* ------------------------ CS1237: the query slot ---------------------- *)
(* cmd_g9123 and _handle_ready each create a completion, store it in       *)
(* self._query_complete, send checkself_cs1237 and wait up to 2 seconds.   *)
(* The wait suspends the caller: response handlers, the other caller and a *)
(* later command run meanwhile.  The MCU answers each checkself command    *)
(* with one cs1237_checkself_flag message; the message names no query, the *)
(* field "for" below records the completion the slot held when the command *)
(* was sent (0 for none).  The finally clause of _handle_ready sends        *)
(* enable_cs1237 before it clears the slot: when that send raises, the     *)
(* slot keeps its value and the error leaves the handler.                  *)

\* reactor.completion()
NewCompletion == [done |-> FALSE, result |-> NoResponse]

\* the message the MCU sends for the command issued with completion id
CheckResponse(id, flag) ==
    [some |-> TRUE, name |-> "cs1237_checkself_flag", for |-> id,
     flag |-> flag, raw |-> 0]

\* the cs1237_diff message the MCU sends for a query_cs1237_diff command;
\* it has no flag field and answers no query
DiffResponse(raw) ==
    [some |-> TRUE, name |-> "cs1237_diff", for |-> 0, flag |-> 0,
     raw |-> raw]

\* int(params.get('flag', 0))
ParamsFlag(r) == IF r.name = "cs1237_checkself_flag" THEN r.flag ELSE 0

\* completion.complete(params) on the completion the slot holds, if any
CompleteSlot(cs, slot, r) ==
    IF slot # 0 THEN [cs EXCEPT ![slot] = [done |-> TRUE, result |-> r]]
    ELSE cs

\* the W parameter of cmd_g9123: in range, and above maxval
WValues == {0, 4}

\* gcmd.get_int('W', 0, minval=0, maxval=3) returns
WInRange(w) == 0 <= w /\ w <= 3

\* cmd_g9123 up to its wait.  W out of range: get_int raises inside the try
\* before a completion is created; fail: cmd_checkself.send raises.  Either
\* way the finally clause clears the slot, whatever it holds, and the error
\* leaves the command.
G9123Begin(fail, flag, w) ==
    /\ UNCHANGED << lisvars, probevars >>
    /\ ctx["g9123"].pc \in {"idle", "done"}
    /\ ~WInRange(w) => ~fail
    /\ IF WInRange(w)
       THEN /\ Len(completions) < MaxQueries
            /\ LET id == Len(completions) + 1
               IN  /\ completions' = Append(completions, NewCompletion)
                   /\ query_complete' = IF fail THEN 0 ELSE id
                   /\ wire' = IF fail THEN wire
                              ELSE Append(wire, CheckResponse(id, flag))
                   /\ ctx' = [ctx EXCEPT !["g9123"] =
                                 [pc |-> IF fail THEN "done" ELSE "wait",
                                  comp |-> id, params |-> NoResponse,
                                  raised |-> fail]]
       ELSE /\ query_complete' = 0
            /\ ctx' = [ctx EXCEPT !["g9123"] =
                          [pc |-> "done", comp |-> 0, params |-> NoResponse,
                           raised |-> TRUE]]
            /\ UNCHANGED << completions, wire >>
    /\ UNCHANGED << checkself_flag, sensor_state, subvars, devEnable,
                    timedout, shutdown, events,
                    reports, sc, errs >>

\* _handle_ready up to its pause: the reset command; fail: the send raises,
\* which is logged, and the finally clause runs; failFinally: the enable
\* send of the finally clause raises too
ReadyReset(fail, failFinally) ==
    /\ UNCHANGED << lisvars, probevars >>
    /\ ctx["ready"].pc = "idle"
    /\ failFinally => fail
    /\ ctx' = [ctx EXCEPT !["ready"].pc = IF fail THEN "done" ELSE "pause",
                          !["ready"].raised = failFinally]
    /\ query_complete' = IF fail /\ ~failFinally THEN 0 ELSE query_complete
    /\ errs' = IF fail THEN [errs EXCEPT !.logged = @ \cup {"ready"}] ELSE errs
    /\ UNCHANGED << checkself_flag, sensor_state, subvars, devEnable,
                    completions, wire, timedout,
                    shutdown, events, reports, sc >>

\* _handle_ready from its pause to its wait; fail names the send that
\* raises: "enable" (before the completion is created) or "checkself";
\* failFinally: the enable send of the finally clause raises too
ReadyQuery(fail, flag, failFinally) ==
    /\ UNCHANGED << lisvars, probevars >>
    /\ ctx["ready"].pc = "pause"
    /\ Len(completions) < MaxQueries
    /\ failFinally => fail # "none"
    /\ LET id == Len(completions) + 1
           slot == IF fail = "enable" THEN query_complete ELSE id
       IN  /\ completions' = IF fail = "enable" THEN completions
                             ELSE Append(completions, NewCompletion)
           /\ query_complete' = IF fail = "none" \/ failFinally THEN slot
                                ELSE 0
           /\ wire' = IF fail = "none"
                      THEN Append(wire, CheckResponse(id, flag)) ELSE wire
           /\ ctx' = [ctx EXCEPT !["ready"] =
                         [pc |-> IF fail = "none" THEN "wait" ELSE "done",
                          comp |-> IF fail = "enable" THEN 0 ELSE id,
                          params |-> NoResponse, raised |-> failFinally]]
    /\ errs' = IF fail = "none" THEN errs
               ELSE [errs EXCEPT !.logged = @ \cup {"ready"}]
    /\ UNCHANGED << checkself_flag, sensor_state, subvars, devEnable,
                    timedout, shutdown, events,
                    reports, sc >>

\* the wait of caller c returns the result of its completion.  cmd_g9123
\* stores and prints the flag and clears the slot in its finally clause.
\* _handle_ready runs its finally clause and then invokes shutdown on flag
\* 0; failFinally: the enable send of the finally clause raises, the slot
\* is not cleared and the flag is not looked at.
WaitReturn(c, failFinally) ==
    /\ UNCHANGED << lisvars, probevars >>
    /\ ctx[c].pc = "wait"
    /\ completions[ctx[c].comp].done
    /\ failFinally => c = "ready"
    /\ LET res == completions[ctx[c].comp].result
       IN  /\ ctx' = [ctx EXCEPT ![c].pc = "done", ![c].params = res,
                                 ![c].raised = failFinally]
           /\ checkself_flag' = IF c = "g9123" THEN ParamsFlag(res)
                                ELSE checkself_flag
           /\ shutdown' = (shutdown \/ (c = "ready" /\ ~failFinally
                                        /\ ParamsFlag(res) = 0))
    /\ query_complete' = IF failFinally THEN query_complete ELSE 0
    /\ UNCHANGED << sensor_state, subvars, devEnable,
                    completions, wire, timedout, events,
                    reports, sc, errs >>

\* the wait of caller c times out: params is None, the slot is cleared;
\* failFinally: the enable send of the finally clause of _handle_ready
\* raises and the slot is not cleared
WaitTimeout(c, failFinally) ==
    /\ UNCHANGED << lisvars, probevars >>
    /\ ctx[c].pc = "wait"
    /\ ~completions[ctx[c].comp].done
    /\ failFinally => c = "ready"
    /\ ctx' = [ctx EXCEPT ![c].pc = "done", ![c].params = NoResponse,
                          ![c].raised = failFinally]
    /\ timedout' = timedout \cup {ctx[c].comp}
    /\ query_complete' = IF failFinally THEN query_complete ELSE 0
    /\ UNCHANGED << checkself_flag, sensor_state, subvars, devEnable,
                    completions, wire, shutdown,
                    events, reports, sc, errs >>

\* cmd_checkself_cs1237: the checkself command is sent without a
\* completion; the MCU will answer it with a cs1237_checkself_flag message
CmdCheckself(flag) ==
    /\ UNCHANGED << lisvars, probevars >>
    /\ Len(wire) < MaxQueries
    /\ wire' = Append(wire, CheckResponse(query_complete, flag))
    /\ UNCHANGED << query_complete, checkself_flag, sensor_state, subvars,
                    devEnable, completions, ctx, timedout, shutdown, events,
                    reports, sc, errs >>

\* _handle_cs1237_check on the next message of the MCU
HandleCheck ==
    /\ UNCHANGED << lisvars, probevars >>
    /\ wire # << >>
    /\ Head(wire).name = "cs1237_checkself_flag"
    /\ wire' = Tail(wire)
    /\ checkself_flag' = Head(wire).flag
    /\ completions' = CompleteSlot(completions, query_complete, Head(wire))
    /\ UNCHANGED << query_complete, sensor_state, subvars, devEnable,
                    ctx, timedout, shutdown,
                    events, reports, sc, errs >>

\* cmd_query_cs1237_diff: the command is sent, the MCU will answer it with
\* a cs1237_diff message carrying the raw value (one such command at a time)
CmdQueryDiff(raw) ==
    /\ UNCHANGED << lisvars, probevars >>
    /\ \A k \in 1..Len(wire) : wire[k].name # "cs1237_diff"
    /\ wire' = Append(wire, DiffResponse(raw))
    /\ UNCHANGED << query_complete, checkself_flag, sensor_state, subvars,
                    devEnable, completions, ctx, timedout, shutdown, events,
                    reports, sc, errs >>

\* _handle_cs1237_diff on the next message of the MCU
HandleDiff ==
    /\ UNCHANGED << lisvars, probevars >>
    /\ wire # << >>
    /\ Head(wire).name = "cs1237_diff"
    /\ wire' = Tail(wire)
    /\ raw_value' = Head(wire).raw
    /\ completions' = CompleteSlot(completions, query_complete, Head(wire))
    /\ UNCHANGED << query_complete, checkself_flag, sensor_state, adc_value,
                    reporting, clients, devEnable, ctx, timedout, shutdown,
                    events, reports, sc, errs >>

\* the raw field of a cs1237_diff message
RawValues == {7}

NextQuery ==
    \/ \E raw \in RawValues : CmdQueryDiff(raw)
    \/ HandleDiff
    \/ \E fail \in BOOLEAN, flag \in {0, 1}, w \in WValues :
          G9123Begin(fail, flag, w)
    \/ \E fail \in BOOLEAN, failFinally \in BOOLEAN :
          ReadyReset(fail, failFinally)
    \/ \E fail \in {"none", "enable", "checkself"}, flag \in {0, 1},
          failFinally \in BOOLEAN : ReadyQuery(fail, flag, failFinally)
    \/ \E c \in Callers, failFinally \in BOOLEAN : WaitReturn(c, failFinally)
    \/ \E c \in Callers, failFinally \in BOOLEAN : WaitTimeout(c, failFinally)
    \/ HandleCheck
    \/ \E flag \in {0, 1} : CmdCheckself(flag)
SpecQuery == Init /\ [][NextQuery]_vars

\* the g-code commands alone: one query of cmd_g9123 after the other, never
\* two at once, and cmd_checkself_cs1237
NextG9123 ==
    \/ \E fail \in BOOLEAN, flag \in {0, 1}, w \in WValues :
          G9123Begin(fail, flag, w)
    \/ WaitReturn("g9123", FALSE)
    \/ WaitTimeout("g9123", FALSE)
    \/ HandleCheck
    \/ \E flag \in {0, 1} : CmdCheckself(flag)
SpecG9123 == Init /\ [][NextG9123]_vars

(* ---------------- CS1237: state reports and self-check ---------------- *)

\* the state byte of a cs1237_state message
ReportStates == {0, SELF_CHECK_ERR, SCRATCH_STATE_ERR, BLOCK_FILAMENT_ERR,
                 HEAD_BLOCK_STATE_ERR}

\* the printer.send_event calls of _handle_cs1237_report for a state
EventsFor(state) ==
    IF state = SCRATCH_STATE_ERR THEN << "CS1237:scratch_notice" >>
    ELSE IF state = BLOCK_FILAMENT_ERR
         THEN << "CS1237:block_filament_notice" >>
    ELSE IF state = HEAD_BLOCK_STATE_ERR
         THEN << "CS1237:head_block_notice" >>
    ELSE << >>

\* the stretch of _self_check_sequence between its start and stop commands
WatchWindow == {"stimulus", "moves", "settle"}

\* ctypes.c_int32(value).value: the adc and raw fields are %i fields, and
\* every value of the model lies within the 32-bit range, where the
\* conversion returns its argument
Int32Conversion(value) == value

\* the callbacks stored in a client list
Callbacks(list) == { list[k] : k \in 1..Len(list) }

\* the fields of a cs1237_state message in the order the handler converts
\* them, and "none"
ReportFields == {"adc", "raw", "state", "none"}

RECURSIVE ClientsAfterDispatch(_, _, _)
\* for cb in list(self._clients): if cb(msg) is False: remove(cb), where
\* leave is the set of callbacks that return False and raising the set of
\* callbacks that raise: the first of these ends the loop, and the
\* callbacks after it are neither called nor removed
ClientsAfterDispatch(list, leave, raising) ==
    IF list = << >> THEN << >>
    ELSE IF Head(list) \in raising THEN list
    ELSE IF Head(list) \in leave
         THEN ClientsAfterDispatch(Tail(list), leave, raising)
    ELSE << Head(list) >> \o ClientsAfterDispatch(Tail(list), leave, raising)

\* a callback of the list raises
DispatchRaises(list, raising) == Callbacks(list) \cap raising # {}

\* _handle_cs1237_report.  malformed names the first field that is not a
\* number: int() raises there, the fields before it are stored already and
\* nothing after it happens.  With every field a number the event of the
\* state is sent and the clients are called; a raising client ends the
\* handler there.  Every exception is logged.
HandleReport(state, malformed, adc, raw, leave, raising) ==
    /\ UNCHANGED << lisvars, probevars >>
    /\ reports < MaxReports
    /\ reports' = reports + 1
    /\ adc_value' = IF malformed = "adc" THEN adc_value
                    ELSE Int32Conversion(adc)
    /\ raw_value' = IF malformed \in {"adc", "raw"} THEN raw_value
                    ELSE Int32Conversion(raw)
    /\ sensor_state' = IF malformed = "none" THEN state ELSE sensor_state
    /\ events' = IF malformed = "none" THEN events \o EventsFor(state)
                 ELSE events
    /\ clients' = IF malformed = "none"
                  THEN ClientsAfterDispatch(clients, leave, raising)
                  ELSE clients
    /\ UNCHANGED reporting
    /\ sc' = IF malformed = "none"
             THEN [sc EXCEPT !.fresh = @ \/ sc.pc \in WatchWindow]
             ELSE sc
    /\ errs' = IF malformed # "none" \/ DispatchRaises(clients, raising)
               THEN [errs EXCEPT !.logged = @ \cup {"report"}]
               ELSE errs
    /\ UNCHANGED << query_complete, devEnable, checkself_flag, completions, ctx, wire,
                    timedout, shutdown >>

\* _self_check_sequence: the reset command, up to the pause of 0.1 s
ScBegin ==
    /\ UNCHANGED << lisvars, probevars >>
    /\ sc.pc = "idle"
    /\ sc' = [sc EXCEPT !.pc = "pause", !.trace = << "reset" >>]
    /\ UNCHANGED << query_complete, checkself_flag, sensor_state, subvars, devEnable,
                    completions,
                    ctx, wire, timedout, shutdown, events, reports, errs >>

\* after the pause: _check_start(1.0, SELF_CHECK_STATE, ...), then
\* _self_check_resonances runs its script, which suspends
ScStart ==
    /\ UNCHANGED << lisvars, probevars >>
    /\ sc.pc = "pause"
    /\ sc' = [sc EXCEPT !.pc = "stimulus",
                        !.trace = @ \o << "start", "stimulus" >>]
    /\ devEnable' = 1
    /\ UNCHANGED << query_complete, checkself_flag, sensor_state, subvars,
                    completions, ctx, wire, timedout, shutdown, events,
                    reports, errs >>

\* the script ends; fail: it raised, which _self_check_resonances logs.
\* toolhead.wait_moves() follows, which suspends
ScStimulusDone(fail) ==
    /\ UNCHANGED << lisvars, probevars >>
    /\ sc.pc = "stimulus"
    /\ sc' = [sc EXCEPT !.pc = "moves"]
    /\ errs' = IF fail THEN [errs EXCEPT !.logged = @ \cup {"resonances"}]
               ELSE errs
    /\ UNCHANGED << query_complete, checkself_flag, sensor_state, subvars, devEnable,
                    completions,
                    ctx, wire, timedout, shutdown, events, reports >>

\* the moves are done: the pause of 3 s begins
ScMovesDone ==
    /\ UNCHANGED << lisvars, probevars >>
    /\ sc.pc = "moves"
    /\ sc' = [sc EXCEPT !.pc = "settle", !.trace = @ \o << "settle" >>]
    /\ UNCHANGED << query_complete, checkself_flag, sensor_state, subvars, devEnable,
                    completions,
                    ctx, wire, timedout, shutdown, events, reports, errs >>

\* the pause is over: _check_stop(SELF_CHECK_STATE), then the verdict on
\* self.sensor_state, with nothing suspending in between
ScSettleDone ==
    /\ UNCHANGED << lisvars, probevars >>
    /\ sc.pc = "settle"
    /\ sc' = [sc EXCEPT !.pc = "done",
                        !.trace = @ \o << "stop", "verdict" >>,
                        !.state = sensor_state,
                        !.raised = (sensor_state = SELF_CHECK_ERR)]
    /\ devEnable' = 0
    /\ UNCHANGED << query_complete, checkself_flag, sensor_state, subvars,
                    completions, ctx, wire, timedout, shutdown, events,
                    reports, errs >>

\* _on_ready_enable, which never suspends.  Each argument says whether one
\* of its sends raises: the reset (caught, pass), the enable (not caught:
\* the error leaves the handler), the start report (caught and logged), the
\* stop report (caught, pass).
OnReadyEnable(failReset, failEnable, failStart, failStop) ==
    /\ UNCHANGED << lisvars, probevars >>
    /\ ~errs.ran
    /\ errs' = [ran |-> TRUE,
                logged |-> errs.logged
                    \cup (IF ~failEnable /\ failStart THEN {"prime"} ELSE {}),
                swallowed |-> errs.swallowed
                    \cup (IF failReset THEN {"reset"} ELSE {})
                    \cup (IF ~failEnable /\ failStop THEN {"stop"} ELSE {}),
                raised |-> errs.raised
                    \cup (IF failEnable THEN {"enable"} ELSE {})]
    /\ devEnable' = IF failEnable THEN devEnable
                    ELSE IF ~failStop THEN 0
                    ELSE IF ~failStart THEN 1
                    ELSE devEnable
    /\ UNCHANGED << query_complete, checkself_flag, sensor_state, subvars,
                    completions, ctx, wire, timedout, shutdown, events,
                    reports, sc >>

NextReport ==
    \/ \E state \in ReportStates, malformed \in ReportFields :
          HandleReport(state, malformed, 0, 0, {}, {})
    \/ ScBegin
    \/ ScStart
    \/ \E fail \in BOOLEAN : ScStimulusDone(fail)
    \/ ScMovesDone
    \/ ScSettleDone
    \/ \E a \in BOOLEAN, b \in BOOLEAN, c \in BOOLEAN, d \in BOOLEAN :
          OnReadyEnable(a, b, c, d)
SpecReport == Init /\ [][NextReport]_vars

(* -------------------- CS1237: report subscriptions -------------------- *)
(* start_reporting and stop_reporting send start_cs1237_report with enable *)
(* 1 and 0 and keep self._reporting; _check_start and _check_stop send the *)
(* same command without touching the flag.  None of them suspends.         *)

\* the callbacks that subscribe
ClientIds == {1, 2}

\* self._reporting after start_reporting and after stop_reporting
ReportingAfterStart(rep) == TRUE
ReportingAfterStop(rep) == FALSE

\* the MCU's enable after start_reporting: the command is sent unless the
\* flag was set already
EnableAfterStart(rep, enable) == IF rep THEN enable ELSE 1

\* the MCU's enable after stop_reporting: sent unless the flag was clear
EnableAfterStop(rep, enable) == IF rep THEN 0 ELSE enable

\* if callback not in self._clients: self._clients.append(callback)
ClientsAfterAdd(list, cb) ==
    IF cb \in Callbacks(list) THEN list ELSE Append(list, cb)

\* if callback in self._clients: self._clients.remove(callback)
ClientsAfterRemove(list, cb) == SelectSeq(list, LAMBDA c : c # cb)

\* start_reporting
StartReporting ==
    /\ UNCHANGED << lisvars, probevars >>
    /\ reporting' = ReportingAfterStart(reporting)
    /\ devEnable' = EnableAfterStart(reporting, devEnable)
    /\ UNCHANGED << query_complete, checkself_flag, sensor_state, adc_value,
                    raw_value, clients, completions, ctx, wire, timedout,
                    shutdown, events, reports, sc, errs >>

\* stop_reporting
StopReporting ==
    /\ UNCHANGED << lisvars, probevars >>
    /\ reporting' = ReportingAfterStop(reporting)
    /\ devEnable' = EnableAfterStop(reporting, devEnable)
    /\ UNCHANGED << query_complete, checkself_flag, sensor_state, adc_value,
                    raw_value, clients, completions, ctx, wire, timedout,
                    shutdown, events, reports, sc, errs >>

\* add_client: the callback is stored once, then start_reporting
AddClient(cb) ==
    /\ UNCHANGED << lisvars, probevars >>
    /\ clients' = ClientsAfterAdd(clients, cb)
    /\ reporting' = ReportingAfterStart(reporting)
    /\ devEnable' = EnableAfterStart(reporting, devEnable)
    /\ UNCHANGED << query_complete, checkself_flag, sensor_state, adc_value,
                    raw_value, completions, ctx, wire, timedout, shutdown,
                    events, reports, sc, errs >>

\* remove_client: stop_reporting if no client is left
RemoveClient(cb) ==
    /\ UNCHANGED << lisvars, probevars >>
    /\ clients' = ClientsAfterRemove(clients, cb)
    /\ reporting' = IF clients' = << >> THEN ReportingAfterStop(reporting)
                    ELSE reporting
    /\ devEnable' = IF clients' = << >>
                    THEN EnableAfterStop(reporting, devEnable)
                    ELSE devEnable
    /\ UNCHANGED << query_complete, checkself_flag, sensor_state, adc_value,
                    raw_value, completions, ctx, wire, timedout, shutdown,
                    events, reports, sc, errs >>

\* cmd_dump (CS1237, CS1237_DUMP).  E=1: _enable_cs1237(1), start_reporting,
\* _check_start; E=0: _check_stop, stop_reporting, _enable_cs1237(0)
CmdDump(e) ==
    /\ UNCHANGED << lisvars, probevars >>
    /\ reporting' = IF e = 1 THEN ReportingAfterStart(reporting)
                    ELSE ReportingAfterStop(reporting)
    /\ devEnable' = IF e = 1 THEN 1 ELSE EnableAfterStop(reporting, 0)
    /\ UNCHANGED << query_complete, checkself_flag, sensor_state, adc_value,
                    raw_value, clients, completions, ctx, wire, timedout,
                    shutdown, events, reports, sc, errs >>

\* the E and R parameters of cmd_g9121 and cmd_g9122: in range, and above
\* maxval
FlagValues == {0, 1, 2}

\* the T parameter in tenths of a second: in range, and above maxval
PeriodValues == {10, 11}

\* gcmd.get_int(name, 0, minval=0, maxval=1) returns
FlagInRange(v) == v \in {0, 1}

\* gcmd.get_float('T', 1.0, minval=0.1, maxval=1.0) returns
PeriodInRange(t) == 1 <= t /\ t <= 10

\* cmd_g9121 and cmd_g9122: E and R are read, self._reporting = r > 0, T is
\* read, then _check_start for E=1 and _check_stop for E=0.  A parameter
\* out of range raises where it is read: E or R before the flag is
\* assigned, T after it and before the command is sent.
CmdG912x(e, r, t) ==
    /\ UNCHANGED << lisvars, probevars >>
    /\ reporting' = IF FlagInRange(e) /\ FlagInRange(r) THEN r > 0
                    ELSE reporting
    /\ devEnable' = IF FlagInRange(e) /\ FlagInRange(r) /\ PeriodInRange(t)
                    THEN (IF e = 1 THEN 1 ELSE 0)
                    ELSE devEnable
    /\ UNCHANGED << query_complete, checkself_flag, sensor_state, adc_value,
                    raw_value, clients, completions, ctx, wire, timedout,
                    shutdown, events, reports, sc, errs >>

\* Subscribers coming and going while reports are dispatched.
NextClients ==
    \/ \E cb \in ClientIds : AddClient(cb)
    \/ \E cb \in ClientIds : RemoveClient(cb)
    \/ \E state \in ReportStates, malformed \in ReportFields,
          leave \in SUBSET ClientIds, raising \in SUBSET ClientIds :
          HandleReport(state, malformed, 0, 0, leave, raising)
SpecClients == Init /\ [][NextClients]_vars

\* Every way of switching the reports on and off.
NextReporting ==
    \/ StartReporting
    \/ StopReporting
    \/ \E cb \in ClientIds : AddClient(cb)
    \/ \E cb \in ClientIds : RemoveClient(cb)
    \/ \E e \in {0, 1} : CmdDump(e)
    \/ \E e \in FlagValues, r \in FlagValues, t \in PeriodValues :
          CmdG912x(e, r, t)
    \/ \E state \in ReportStates, malformed \in ReportFields,
          leave \in SUBSET ClientIds, raising \in SUBSET ClientIds :
          HandleReport(state, malformed, 0, 0, leave, raising)
SpecReporting == Init /\ [][NextReporting]_vars

(* ------------------------ ProbeKS1: run_probe ------------------------- *)
(* run_probe suspends inside probe() and inside the retract move; each     *)
(* action below runs from one of these to the next.  The value returned at *)
(* the end is computed from the samples collected (calc_mean, calc_median, *)
(* calc_weighted) and changes nothing.                                     *)

\* z of a probe sample, and samples_tolerance, in the same unit
ZValues == {0, 1, 2}
Tolerances == {0, 1}

RECURSIVE SeqMax(_)
\* max(zs), for a non-empty list
SeqMax(zs) ==
    IF Len(zs) = 1 THEN zs[1] ELSE Max(Head(zs), SeqMax(Tail(zs)))

RECURSIVE SeqMin(_)
\* min(zs), for a non-empty list
SeqMin(zs) ==
    IF Len(zs) = 1 THEN zs[1]
    ELSE LET m == SeqMin(Tail(zs))
         IN  IF Head(zs) <= m THEN Head(zs) ELSE m

\* max(zs) - min(zs) > tol
ExceedsTolerance(zs, tol) == SeqMax(zs) - SeqMin(zs) > tol

\* Variant: one more restart is allowed than configured.
RetriesExhaustedLate(attempts, retries) == attempts > retries

\* if attempts >= retries: raise
RetriesExhausted(attempts, retries) == attempts >= retries

\* run_probe up to its first call of probe(): the parameters are read
\* (samples is at least 1), multi_probe_begin is called, the locals are set
RunProbeBegin(cnt, retries, tol) ==
    /\ UNCHANGED << lisvars, csvars >>
    /\ rp.pc = "idle"
    /\ rp' = [NoRun EXCEPT !.pc = "probe", !.cnt = cnt, !.retries = retries,
                           !.tol = tol, !.begins = 1]
    /\ UNCHANGED pw

\* probe() returns a sample with the given z: it is appended and the
\* tolerance is checked; then the error, the restart and the next call, the
\* retract move, or the end of the loop with multi_probe_end
ProbeReturns(z) ==
    /\ UNCHANGED << lisvars, csvars >>
    /\ rp.pc = "probe"
    /\ LET zs == Append(rp.zs, z)
           r == [rp EXCEPT !.calls = @ + 1, !.z = z]
       IN  rp' = IF ExceedsTolerance(zs, rp.tol)
                 THEN IF RetriesExhausted(rp.attempts, rp.retries)
                      THEN [r EXCEPT !.zs = zs, !.pc = "done",
                                     !.outcome = "tolerance"]
                      ELSE [r EXCEPT !.zs = << >>, !.attempts = @ + 1]
                 ELSE IF Len(zs) < rp.cnt
                      THEN [r EXCEPT !.zs = zs, !.pc = "retract"]
                      ELSE [r EXCEPT !.zs = zs, !.pc = "done",
                                     !.ends = @ + 1, !.outcome = "returned"]
    /\ UNCHANGED pw

\* probe() raises ("Must home before probe", or the error of the probing
\* move): the error leaves run_probe
ProbeRaises ==
    /\ UNCHANGED << lisvars, csvars >>
    /\ rp.pc = "probe"
    /\ rp' = [rp EXCEPT !.calls = @ + 1, !.pc = "done",
                        !.outcome = "probe_error"]
    /\ UNCHANGED pw

\* the retract move is done: the loop goes on with the next call of probe()
RetractDone ==
    /\ UNCHANGED << lisvars, csvars >>
    /\ rp.pc = "retract"
    /\ rp' = [rp EXCEPT !.pc = "probe"]
    /\ UNCHANGED pw

\* the retract move raises (manual_move, "Move out of range"): the error
\* leaves run_probe
RetractRaises ==
    /\ UNCHANGED << lisvars, csvars >>
    /\ rp.pc = "retract"
    /\ rp' = [rp EXCEPT !.pc = "done", !.outcome = "other_error"]
    /\ UNCHANGED pw

NextProbe ==
    \/ \E cnt \in 1..MaxSamples, retries \in 0..MaxRetries,
          tol \in Tolerances : RunProbeBegin(cnt, retries, tol)
    \/ \E z \in ZValues : ProbeReturns(z)
    \/ ProbeRaises
    \/ RetractDone
    \/ RetractRaises
SpecProbe == Init /\ [][NextProbe]_vars

(* -------------------------- ProbeKS1: probe --------------------------- *)
(* After the probing move, probe() loops: it reads cs1237.adc_value and    *)
(* leaves the loop if the value reached the threshold; otherwise it calls  *)
(* query_endstop, which tests the adc value again and then queries the     *)
(* endstop of the MCU, and leaves the loop if that reports triggered.  The *)
(* query suspends, so reports are handled meanwhile.  One iteration is two *)
(* steps here: the test of the adc value up to the query, and its answer.  *)

\* self.threshold: the "sensitivity" option
Threshold == 5

\* the adc field of a cs1237_state report: below and at the threshold
AdcValues == {0, Threshold}

\* adc is not None and adc >= self.threshold
AdcTriggered(adc) == adc # None /\ adc >= Threshold

\* probe() up to the probing move; homed: "z" is in homed_axes
ProbeBegin(homed) ==
    /\ UNCHANGED << lisvars, csvars >>
    /\ pw.pc = "idle"
    /\ pw' = IF homed THEN [pw EXCEPT !.pc = "moving"]
             ELSE [pw EXCEPT !.pc = "done", !.outcome = "raised"]
    /\ UNCHANGED rp

\* the probing move completes: the loop begins
ProbeMoveDone ==
    /\ UNCHANGED << lisvars, csvars >>
    /\ pw.pc = "moving"
    /\ pw' = [pw EXCEPT !.pc = "check"]
    /\ UNCHANGED rp

\* the top of the loop: the adc test, and the one of custom_query, which
\* reads the same value; then the endstop query is sent
LoopCheck ==
    /\ UNCHANGED << lisvars, csvars >>
    /\ pw.pc = "check"
    /\ pw' = IF AdcTriggered(adc_value)
             THEN [pw EXCEPT !.pc = "done", !.adc = adc_value,
                             !.outcome = "returned"]
             ELSE [pw EXCEPT !.pc = "query", !.adc = adc_value]
    /\ UNCHANGED rp

\* the endstop query returns the state of the pin: break if triggered,
\* else back to the top of the loop
QueryAnswer ==
    /\ UNCHANGED << lisvars, csvars >>
    /\ pw.pc = "query"
    /\ pw' = IF pw.pin = 1
             THEN [pw EXCEPT !.pc = "done", !.endstop = 1,
                             !.outcome = "returned"]
             ELSE [pw EXCEPT !.pc = "check", !.endstop = 0]
    /\ UNCHANGED rp

\* the endstop pin changes
EndstopChange(s) ==
    /\ UNCHANGED << lisvars, csvars >>
    /\ pw.pc # "done"
    /\ pw.pin # s
    /\ pw' = [pw EXCEPT !.pin = s]
    /\ UNCHANGED rp

\* The loop runs whenever it can; the reports and the pin are up to the
\* sensor and the endstop.
NextWait ==
    \/ \E homed \in BOOLEAN : ProbeBegin(homed)
    \/ ProbeMoveDone
    \/ LoopCheck
    \/ QueryAnswer
    \/ \E s \in {0, 1} : EndstopChange(s)
    \/ \E state \in ReportStates, adc \in AdcValues :
          HandleReport(state, "none", adc, adc, {}, {})
SpecWait ==
    /\ Init
    /\ [][NextWait]_vars
    /\ WF_vars(ProbeMoveDone)
    /\ WF_vars(LoopCheck)
    /\ WF_vars(QueryAnswer)

(* ------------------------------ properties ---------------------------- *)

\* C1: a status poll that finds last_sequence equal to the MCU's true block
\* count, after the MCU advanced by fewer than 32768 blocks, leaves
\* last_sequence equal to the new true count and not below its old value.
C1_ReconcilerRecoversTrueCount ==
    (poll.synced /\ poll.adv < HALF16)
        => (last_sequence = devSeq /\ last_sequence >= poll.prev)

\* C1 case: such a poll carried last_sequence across a 16-bit wrap.
C1_Witness ==
    /\ poll.synced
    /\ poll.adv > 0
    /\ poll.adv < HALF16
    /\ last_sequence \div WRAP16 > poll.prev \div WRAP16

\* C2: no step lowers last_sequence, except _start_measurements, which
\* resets it to 0.
C2_SequenceNeverDecreases ==
    [][ \/ last_sequence' >= last_sequence
        \/ (pc = "stopped" /\ pc' = "idle" /\ last_sequence' = 0) ]_vars

\* C2 case: a second poll raised last_sequence, from a value that had
\* already lost track of the MCU's count.
C2_Witness ==
    /\ polls = 2
    /\ ~poll.synced
    /\ poll.prev > 0
    /\ last_sequence > poll.prev

\* C3: a status poll after the MCU advanced by more than 32768 blocks
\* either reports an ambiguous sequence wrap or leaves last_sequence equal
\* to the true count.
C3_AmbiguousWrapSurfaced ==
    (poll.synced /\ poll.adv > HALF16)
        => (result.err = "AmbiguousSequenceWrap" \/ last_sequence = devSeq)

\* C4 as stated: a tick sends at most 5 queries, re-sends only after a
\* failed attempt, and raises exactly when all 5 attempts failed.
C4_RetryOnlyAfterFailure ==
    /\ tick.sent <= QUERY_ATTEMPTS
    /\ ~tick.resentOk
    /\ (result.kind = "raised" => ~tick.anyOk)
    /\ (result.kind \in {"empty", "batch"} => tick.anyOk)

\* C4 amended: a tick sends at most 5 queries; it re-sends only after an
\* attempt that raised or answered with a fifo level above 32; it raises
\* exactly when the 5th attempt raised; otherwise it proceeds with the
\* response of its last attempt, whose fifo level is at most 32 unless it
\* is the 5th.
C4_RetryUntilValidFifo ==
    /\ tick.sent <= QUERY_ATTEMPTS
    /\ ~tick.resentValid
    /\ ~tick.raisedEarly
    /\ ~tick.lostFail
    /\ (result.kind \in {"empty", "batch"} => (tick.usedLast /\ tick.endOk))

\* C4 case: the tick raised although an earlier attempt had been answered.
C4_Witness ==
    /\ result.kind = "raised"
    /\ tick.anyOk

\* C5: no step lowers last_limit_count, except the reset in
\* _start_measurements.
C5_LimitCountMonotonic ==
    [][ \/ last_limit_count' >= last_limit_count
        \/ (pc = "stopped" /\ pc' = "idle") ]_vars

\* C6: a block delivered in this session is in the buffer exactly once or
\* was passed to the decoder exactly once, never both and never neither.
C6_NoBlockLostOrDecodedTwice ==
    \A i \in session :
        LET inBuffer == Cardinality({k \in 1..Len(samples) : samples[k].id = i})
        IN  /\ handed[i] <= 1
            /\ inBuffer <= 1
            /\ handed[i] + inBuffer = 1

\* C6 case: a flush decoded two blocks, one of which arrived while the
\* status query of that tick was suspended.
C6_Witness ==
    /\ result.kind = "batch"
    /\ tick.late
    /\ Len(result.input) >= 2
    /\ \A k \in 1..Len(result.input) : handed[result.input[k].id] = 1

\* C7: the samples of one batch are in ascending order of timestamp,
\* whatever order its blocks arrived in.
C7_OutputTimeAscending ==
    result.kind = "batch"
        => \A k \in 1..(Len(result.data) - 1) :
              result.data[k][1] <= result.data[k + 1][1]

RECURSIVE CompleteUnits(_)
\* sum over the blocks of floor(len(payload) / 6)
CompleteUnits(blocks) ==
    IF blocks = << >> THEN 0
    ELSE (Len(Head(blocks).data) \div 6) + CompleteUnits(Tail(blocks))

\* C8: a batch decoded with the clock sync ready holds one sample per
\* complete 6-byte unit of its blocks.
C8_SampleCount ==
    (result.kind = "batch" /\ result.ready)
        => Len(result.data) = CompleteUnits(result.input)

\* C8 case: such a batch of two blocks, one ending exactly with a unit and
\* one ending in a partial unit.
C8_Witness ==
    /\ result.kind = "batch"
    /\ result.ready
    /\ Len(result.input) >= 2
    /\ \E k \in 1..Len(result.input) : Len(result.input[k].data) = 6
    /\ \E k \in 1..Len(result.input) : Len(result.input[k].data) % 6 # 0

\* the 16-bit two's complement value of (high << 8) | (low & 0xFC)
C9_Raw(low, high) ==
    LET v == high * 256 + (low - (low % 4))
    IN  IF v >= 32768 THEN v - 65536 ELSE v

\* C9: for a decoded unit, every raw axis value lies in -32768..32764 and
\* is a multiple of 4; output axis k is raw[index_k] * scale_k / 4; and with
\* the default axes map an axis encoded as raw * 4 decodes to raw.
C9_DecodeUnit ==
    (result.kind = "batch" /\ result.err = "none" /\ Len(result.input) = 1
     /\ Len(result.data) = 1)
        => LET d == result.input[1].data
               s == result.data[1]
           IN  \A k \in 1..3 :
                  LET raw == C9_Raw(d[k], d[k + 3])
                      src == axes_map[k].pos + 1
                  IN  /\ raw \in -32768..32764
                      /\ raw % 4 = 0
                      /\ s[k + 1] * 4
                            = C9_Raw(d[src], d[src + 3]) * axes_map[k].scale
                      /\ axes_map = DefaultAxesMap
                            => \A r \in RoundTripRaw :
                                  << d[k], d[k + 3] >> = EncodeAxis(r)
                                      => s[k + 1] = r

\* C9 case: the unit that encodes (100, -200, -8192) decoded with the
\* default axes map.
C9_Witness ==
    /\ result.kind = "batch"
    /\ result.err = "none"
    /\ axes_map = DefaultAxesMap
    /\ Len(result.data) = 1
    /\ result.data[1][2] = 100
    /\ result.data[1][3] = -200
    /\ result.data[1][4] = -8192

\* C10: a flush of a non-empty buffer while the clock sync is not ready
\* returns a batch result (it does not raise) whose decode failed with
\* ClockNotSynced and whose data list is empty.
C10_NotSyncedFailsBatch ==
    (result.input # << >> /\ ~result.ready)
        => /\ result.kind = "batch"
           /\ result.err = "ClockNotSynced"
           /\ result.data = << >>

\* C10 case: such a flush after the duration filter rejected every poll.
C10_Witness ==
    /\ result.input # << >>
    /\ ~result.ready
    /\ clock_sync.n = 0
    /\ result.kind = "batch"

\* C11: a status poll whose query_ticks exceeds max_query_duration sets
\* max_query_duration to max(2 * max_query_duration, floor) and leaves the
\* clock sync as it was, while last_sequence and the limit counter follow
\* the MCU; any other poll feeds (clock + duration // 2, sample count) to
\* the clock sync and sets max_query_duration to 2 * duration.
C11_DurationFilter ==
    poll.done =>
        /\ last_sequence = poll.prev + poll.adv
        /\ last_limit_count = devLimit
        /\ IF poll.dur > poll.mqd
           THEN /\ max_query_duration
                      = (IF 2 * poll.mqd >= MIN_QUERY_TICKS
                         THEN 2 * poll.mqd ELSE MIN_QUERY_TICKS)
                /\ clock_sync = poll.cs
           ELSE /\ max_query_duration = 2 * poll.dur
                /\ clock_sync
                      = ClockSyncUpdate(poll.cs, poll.point[1], poll.point[2])

\* C11 case: a poll was rejected after an accepted one had brought
\* max_query_duration to 0, so the floor applies and the clock sync keeps
\* its single point.
C11_Witness ==
    /\ poll.done
    /\ poll.dur > poll.mqd
    /\ poll.mqd = 0
    /\ max_query_duration = MIN_QUERY_TICKS
    /\ clock_sync.n = 1
    /\ last_sequence = 2

\* C17: from the start of a session to its first status poll the counters,
\* max_query_duration and the clock sync have their initial values, and in
\* every state the buffer and the decoder's last input hold blocks of the
\* current session only.
C17_StartRebuildsSession ==
    /\ (pc # "stopped" /\ polls = 0)
          => /\ last_sequence = 0
             /\ last_error_count = 0
             /\ last_limit_count = 0
             /\ max_query_duration = MaxQueryInit
             /\ clock_sync = ClockSyncReset(0, 0)
    /\ \A k \in 1..Len(samples) : samples[k].id \in session
    /\ \A k \in 1..Len(result.input) : result.input[k].id \in session

\* C17 case: a session started after one that had left a block in the
\* buffer and a non-zero last_sequence, and a block of the new session
\* arrived.
C17_Witness ==
    /\ pc = "idle"
    /\ polls = 0
    /\ poll.prev > 0
    /\ poll.left > 0
    /\ Len(samples) = 1

\* C18: while no measurement runs, last_sequence and the clock sync have
\* their initial values.
C18_StopTearsDown ==
    pc = "stopped"
        => (last_sequence = 0 /\ clock_sync = ClockSyncReset(0, 0))

RECURSIVE C20_AddUntil(_, _)
\* add 0x10000 until candidate >= last
C20_AddUntil(candidate, last) ==
    IF candidate >= last THEN candidate
    ELSE C20_AddUntil(candidate + 65536, last)

\* the algorithm of the specification: the signed 16-bit delta between the
\* low 16 bits of last and the reported value, taken off last
C20_SpecExtend(last, reported) ==
    LET diff0 == ((last % 65536) - reported) % 65536
        diff == IF diff0 >= 32768 THEN diff0 - 65536 ELSE diff0
    IN  C20_AddUntil(last - diff, last)

\* C20: the value a status poll stores in last_sequence is the value the
\* specification's algorithm gives for the old last_sequence and the
\* reported next_sequence.
C20_ExtensionMatchesSpec ==
    poll.done => last_sequence = C20_SpecExtend(poll.prev, poll.reported)

\* C20 case: the old value was past the 16-bit range and the reported
\* value was below its low 16 bits.
C20_Witness ==
    /\ poll.done
    /\ poll.prev >= WRAP16
    /\ poll.reported < poll.prev % WRAP16
    /\ last_sequence = poll.prev + poll.adv

\* C12: a query never begins while another caller waits: every waiting
\* caller's completion is the one the slot holds, so at most one caller
\* waits and its response completes its own completion.
C12_SecondQueryRefused ==
    /\ \A c \in Callers :
          ctx[c].pc = "wait" => query_complete = ctx[c].comp
    /\ Cardinality({c \in Callers : ctx[c].pc = "wait"}) <= 1

\* C13: once a query is over the slot is cleared, and the response a query
\* returned was not caused by a query whose wait had timed out.
C13_LateResponseNotMisattributed ==
    /\ ctx["g9123"].pc = "done" => query_complete = 0
    /\ ctx["g9123"].params.some => ctx["g9123"].params.for \notin timedout

\* C14: a report whose state differs from the previous one and is a
\* scratch, block-filament or head-block state sends exactly one event, the
\* notice of that state; any other change of state sends at most one; and a
\* report whose state equals the previous one sends none.
C14_EdgeTriggered ==
    [][ reports' # reports =>
            IF sensor_state' # sensor_state
            THEN /\ Len(events') <= Len(events) + 1
                 /\ sensor_state' \in {SCRATCH_STATE_ERR, BLOCK_FILAMENT_ERR,
                                       HEAD_BLOCK_STATE_ERR}
                       => events' = events \o EventsFor(sensor_state')
            ELSE events' = events ]_vars

\* C15: a finished run of the self-check sequence issued reset, start of
\* the watch, stimulus, settle pause, stop of the watch and verdict in this
\* order, and it raised exactly when the sensor state at the verdict was the
\* self-check fault reported between the start and the stop of the watch.
C15_SelfCheckVerdict ==
    sc.pc = "done" =>
        /\ sc.trace
              = << "reset", "start", "stimulus", "settle", "stop", "verdict" >>
        /\ sc.raised <=> (sc.state = SELF_CHECK_ERR /\ sc.fresh)

\* C16: when _handle_ready is over and its self-check failed (no response
\* was returned, or the response carries flag 0), shutdown was invoked.
C16_StartupFailureShutsDown ==
    (ctx["ready"].pc = "done"
     /\ (~ctx["ready"].params.some \/ ctx["ready"].params.flag = 0))
        => shutdown

\* C19: no exception was caught without a log entry or an error result.
C19_NoSilentSwallow ==
    errs.swallowed = {}

\* C21: with last_sequence as the status poll left it, every decoded block
\* whose true index lies 0 to 32767 behind last_sequence gets its true
\* index, which is not negative, and its sample gets the timestamp of that
\* index.
C21_BlockIndexRederived ==
    result.kind = "batch" =>
        /\ last_sequence = ExtendLow16(poll.prev, poll.reported)
        /\ \A k \in 1..Len(result.input) :
              LET b == result.input[k]
                  seq == BlockSeq(last_sequence, b.sequence)
                  tr == ClockSyncTranslation(clock_sync)
              IN  (last_sequence - b.idx) \in 0..(HALF16 - 1)
                    => /\ seq = b.idx
                       /\ seq >= 0
                       /\ (result.err = "none"
                           /\ Len(result.data) = Len(result.input))
                             => result.data[k][1]
                                   = tr.time_base
                                     + (b.idx * SAMPLES_PER_BLOCK
                                        - tr.chip_base) * tr.inv_freq

\* C21 case: a decoded block from before the 16-bit wrap of the block
\* counter, with last_sequence past the wrap.
C21_Witness ==
    /\ result.kind = "batch"
    /\ result.err = "none"
    /\ last_sequence >= WRAP16
    /\ \E k \in 1..Len(result.input) :
          /\ result.input[k].idx < WRAP16
          /\ last_sequence - result.input[k].idx < HALF16
          /\ result.input[k].sequence > Low16(last_sequence)

\* C22: a cs1237_checkself_flag or cs1237_diff message handled while the
\* slot is empty completes no completion and leaves checkself_flag and
\* raw_value as they were.
C22_UnsolicitedResponseIsNoOp ==
    [][ (Len(wire') < Len(wire) /\ query_complete = 0)
            => /\ completions' = completions
               /\ checkself_flag' = checkself_flag
               /\ raw_value' = raw_value ]_vars

\* C24: shutdown was invoked only if the wait of _handle_ready returned a
\* cs1237_checkself_flag message with flag 0.
C24_ShutdownOnlyOnFlagZero ==
    shutdown
        => /\ ctx["ready"].pc = "done"
           /\ ctx["ready"].params.some
           /\ ctx["ready"].params.name = "cs1237_checkself_flag"
           /\ ctx["ready"].params.flag = 0

\* C23: a call of _start_measurements that failed a register check raised
\* the id or register mismatch error, sent no query command, left no
\* measurement running and left the sample buffer, last_sequence, the
\* counters, max_query_duration and the clock sync as they were.
C23_FailedStartLeavesState ==
    start.outcome = "raised"
        => /\ start.err \in {"InvalidId", "RegisterVerifyMismatch"}
           /\ start.sent = 0
           /\ pc = "stopped"
           /\ start.after = start.before

\* C23 case: the last read-back check failed with a block, a non-zero
\* last_sequence and a fed clock sync left over from the previous session.
C23_Witness ==
    /\ start.outcome = "raised"
    /\ start.check = "fifo_ctl"
    /\ start.before.samples # << >>
    /\ start.before.last_sequence > 0
    /\ start.before.clock_sync.n > 0
    /\ samples = start.before.samples

\* C25: self._reporting is true exactly when the last start_cs1237_report
\* command the MCU received had enable = 1.
C25_ReportingAgreesWithDevice ==
    reporting <=> (devEnable = 1)

\* C26: with no client stored the reports are stopped, and no callback is
\* stored twice.
C26_EmptyClientsStopped ==
    /\ clients = << >> => (~reporting /\ devEnable # 1)
    /\ Cardinality(Callbacks(clients)) = Len(clients)

\* C27: in a session whose polls all take at most 3 ticks, a rejected poll
\* is followed by an accepted one, which is fed to the clock sync.  After a
\* rejection max_query_duration is at least the floor of 2, after another at
\* least 4, so two more polls suffice; the rejected polls considered are
\* those that leave the session room for two more.
C27_FilterProgress ==
    (poll.done /\ poll.dur > poll.mqd /\ polls + 2 <= MaxPolls)
        ~> (/\ poll.done
            /\ poll.dur <= poll.mqd
            /\ clock_sync
                  = ClockSyncUpdate(poll.cs, poll.point[1], poll.point[2]))

\* C27 case: a poll was accepted after two polls in a row had been
\* rejected, the first of them with max_query_duration at 0.
C27_Witness ==
    /\ poll.done
    /\ poll.dur <= poll.mqd
    /\ poll.dur = 3
    /\ poll.mqd = 2 * MIN_QUERY_TICKS
    /\ polls = 4
    /\ clock_sync.n = 2

\* C28: run_probe returns only with exactly cnt samples within the
\* tolerance; it never restarts more than retries times and raises the
\* tolerance error only with the retries used up; a probe() result that
\* breaks the tolerance discards every sample and restarts, or raises; and
\* probe() is called at most (retries + 1) * cnt times.
C28_RunProbeSamples ==
    /\ [](/\ rp.outcome = "returned"
               => (Len(rp.zs) = rp.cnt /\ ~ExceedsTolerance(rp.zs, rp.tol))
          /\ rp.attempts <= rp.retries
          /\ rp.outcome = "tolerance" => rp.attempts = rp.retries
          /\ rp.calls <= (rp.retries + 1) * rp.cnt
          /\ rp.outcome # "probe_error"
               => rp.calls <= rp.attempts * rp.cnt + Len(rp.zs))
    /\ [][ (rp'.calls = rp.calls + 1 /\ rp'.outcome # "probe_error"
            /\ ExceedsTolerance(Append(rp.zs, rp'.z), rp.tol))
              => \/ (rp'.zs = << >> /\ rp'.attempts = rp.attempts + 1
                     /\ rp'.pc = "probe")
                 \/ rp'.outcome = "tolerance" ]_vars

\* C28 case: a run with 3 samples and 2 retries returned after both
\* restarts, with the largest number of probe() calls.
C28_Witness ==
    /\ rp.outcome = "returned"
    /\ rp.cnt = 3
    /\ rp.retries = 2
    /\ rp.attempts = 2
    /\ rp.calls = 9

\* C29: when run_probe is over, multi_probe_begin and multi_probe_end were
\* each called once.
C29_MultiProbeBalanced ==
    rp.pc = "done" => (rp.begins = 1 /\ rp.ends = 1)

\* C30: once the probing move is done probe() returns, and it returns only
\* with the adc value it last read at or above the threshold or with the
\* endstop query reporting triggered.
C30_ProbeTerminates ==
    /\ (pw.pc = "check") ~> (pw.pc = "done")
    /\ [](pw.outcome = "returned"
             => (AdcTriggered(pw.adc) \/ pw.endstop = 1))

====
